---- MODULE Spec2Model ----
(***************************************************************************)
(* Model of scripts/meetups_to_rss.py: the Meetup "starting soon" scraper  *)
(* and its conversion of the scraped cards into public/feed.xml.           *)
(*                                                                         *)
(* Time is counted in whole minutes since a day-0 midnight (UTC).  Text    *)
(* is a sequence of tokens (words, numbers, dates, clock times, zone       *)
(* offsets); tokens carry no surrounding whitespace, so str.strip() and    *)
(* the whitespace collapsing of parse_dt leave a token sequence as it is,  *)
(* and a regular expression is matched token by token.                     *)
(***************************************************************************)
EXTENDS Integers, Sequences, FiniteSets, TLC

(* ------------------------------ bounds -------------------------------- *)
MaxAnchors == 2      \* anchors of the rendered page in a multi-card batch
MaxTicks == 1        \* minutes the wall clock may advance during one run
Clock0 == 2340       \* wall clock when the run starts (day 1, 15:00 UTC)

(* ------------------------- program constants -------------------------- *)
WINDOW_MINUTES == 90
MAX_ITEMS == 50
LocalOff == -300     \* LOCAL_TZ = America/Toronto, standard time, minutes
HourLen == 60        \* timedelta(hours=1) in minutes
DayLen == 1440       \* timedelta(days=1) in minutes
MEETUP_URL == "https://www.meetup.com/find/?dateRange=startingSoon&source=EVENTS&eventType=online"

(* ------------------------------ tokens -------------------------------- *)
W(s) == [k |-> s, v |-> 0]
Num(n) == [k |-> "num", v |-> n]
Date(d) == [k |-> "date", v |-> d]
Clk(m) == [k |-> "clock", v |-> m]
Zone(o) == [k |-> "zone", v |-> o]

None == [some |-> FALSE, v |-> 0]
Some(x) == [some |-> TRUE, v |-> x]

\* str.lower() on one word
Lower(w) ==
  CASE w = "In" -> "in"
    [] w = "IN" -> "in"
    [] w = "Hour" -> "hour"
    [] w = "HOURS" -> "hours"
    [] w = "Minutes" -> "minutes"
    [] w = "Today" -> "today"
    [] w = "Tomorrow" -> "tomorrow"
    [] w = "Starting" -> "starting"
    [] w = "Soon" -> "soon"
    [] w = "Verify" -> "verify"
    [] w = "CAPTCHA" -> "captcha"
    [] w = "Unusual" -> "unusual"
    [] w = "Traffic" -> "traffic"
    [] w = "TBD" -> "tbd"
    [] w = "Online" -> "online"
    [] w = "Please" -> "please"
    [] w = "Robotics" -> "robotics"
    [] OTHER -> w

\* str.lower() on a text
LowerText(t) == [j \in 1..Len(t) |-> [t[j] EXCEPT !.k = Lower(t[j].k)]]

\* `sub in text` for a phrase of words
Contains(sub, t) ==
  \E j \in 1..(Len(t) - Len(sub) + 1) :
    \A q \in 1..Len(sub) : t[j + q - 1].k = sub[q]

Min(S) == CHOOSE x \in S : \A y \in S : x <= y

(* --------------------------- now_local -------------------------------- *)
\* the date of an instant on the LOCAL_TZ calendar (strftime("%Y-%m-%d"))
LocalDay(inst) == (inst + LocalOff) \div DayLen

(* ----------------------- dateutil parser.parse ------------------------ *)
\* A text parses when it is a date, optionally followed by a clock time and
\* a zone offset ("at" is one of the parser's jump words); anything else
\* raises.  The result is a wall-clock reading, naive or zoned.  The texts
\* of the model carry a date whenever they carry a clock time.
Raise == [ok |-> FALSE, wall |-> 0, zoned |-> FALSE, off |-> 0]

DropJump(t) == SelectSeq(t, LAMBDA x : x.k # "at")

DateParse(text) ==
  LET t == DropJump(text) IN
  IF Len(t) = 1 /\ t[1].k = "date"
    THEN [ok |-> TRUE, wall |-> t[1].v * DayLen, zoned |-> FALSE, off |-> 0]
  ELSE IF Len(t) = 2 /\ t[1].k = "date" /\ t[2].k = "clock"
    THEN [ok |-> TRUE, wall |-> t[1].v * DayLen + t[2].v, zoned |-> FALSE, off |-> 0]
  ELSE IF Len(t) = 3 /\ t[1].k = "date" /\ t[2].k = "clock" /\ t[3].k = "zone"
    THEN [ok |-> TRUE, wall |-> t[1].v * DayLen + t[2].v, zoned |-> TRUE, off |-> t[3].v]
  ELSE Raise

\* dt.astimezone(LOCAL_TZ) if dt.tzinfo else dt.replace(tzinfo=LOCAL_TZ)
ToLocal(p) == IF p.zoned THEN p.wall - p.off ELSE p.wall - LocalOff

(* --------------------------- attendees_to_int ------------------------- *)
Pow10(n) == IF n = 0 THEN 1 ELSE IF n = 1 THEN 10 ELSE IF n = 2 THEN 100
            ELSE IF n = 3 THEN 1000 ELSE IF n = 4 THEN 10000
            ELSE IF n = 5 THEN 100000 ELSE 1000000

RECURSIVE First6(_)
\* the first six digits of a run of digits: (\d{1,6})
First6(n) == IF n < Pow10(6) THEN n ELSE First6(n \div 10)

attendees_to_int(attendees_text) ==
  IF Len(attendees_text) = 0 THEN 0
  ELSE LET idx == {j \in 1..Len(attendees_text) : attendees_text[j].k = "num"} IN
       IF idx = {} THEN 0 ELSE First6(attendees_text[Min(idx)].v)

(* ------------------------------- parse_dt ----------------------------- *)
Units == {"minute", "minutes", "hour", "hours"}

\* positions where  \bin\s+(\d{1,3})\s*(minute|minutes|hour|hours)\b  matches;
\* ic is the re.I flag
Fold(w, ic) == IF ic THEN Lower(w) ELSE w

RelAt(t, j, ic) ==
  /\ j + 2 <= Len(t)
  /\ Fold(t[j].k, ic) = "in"
  /\ t[j + 1].k = "num" /\ t[j + 1].v < 1000
  /\ Fold(t[j + 2].k, ic) \in Units

NoRel == [found |-> FALSE, n |-> 0, unit |-> ""]

RelSearch(t, ic) ==
  LET idx == {j \in 1..Len(t) : RelAt(t, j, ic)} IN
  IF idx = {} THEN NoRel
  ELSE [found |-> TRUE, n |-> t[Min(idx) + 1].v, unit |-> t[Min(idx) + 2].k]

\* the search of line 104 without the re.I flag
RelSearchParseCaseSensitive(t) == RelSearch(t, FALSE)

\* line 104: re.search(..., t, re.I)
RelSearchParse(t) == RelSearch(t, TRUE)

\* "hour" in unit
IsHour(unit) == unit \in {"hour", "hours"}

\* lines 111-114: today / tomorrow replaced by the calendar date
SubstDays(t, base) ==
  [j \in 1..Len(t) |->
     IF Lower(t[j].k) = "today" THEN Date(LocalDay(base))
     ELSE IF Lower(t[j].k) = "tomorrow" THEN Date(LocalDay(base + DayLen))
     ELSE t[j]]

\* lines 96-122, with base the value now_local() returns at line 100
ParseFreeText(when_text, base) ==
  IF Len(when_text) = 0 THEN None
  ELSE LET rel == RelSearchParse(when_text) IN
       IF rel.found
         THEN Some(base + (IF IsHour(Lower(rel.unit)) THEN rel.n * HourLen ELSE rel.n))
       ELSE LET p == DateParse(SubstDays(when_text, base)) IN
            IF p.ok THEN Some(ToLocal(p)) ELSE None

\* parse_dt with the free text tried before the datetime attribute
parse_dt_FreeTextFirst(dt_attr, when_text, base) ==
  LET f == ParseFreeText(when_text, base) IN
  IF f.some THEN f
  ELSE IF Len(dt_attr) # 0 /\ DateParse(dt_attr).ok THEN Some(ToLocal(DateParse(dt_attr)))
  ELSE None

\* lines 88-122
parse_dt(dt_attr, when_text, base) ==
  IF Len(dt_attr) # 0 /\ DateParse(dt_attr).ok
    THEN Some(ToLocal(DateParse(dt_attr)))
  ELSE ParseFreeText(when_text, base)

(* ----------------------------- within_window -------------------------- *)
\* within_window with < in place of <= at line 136
within_window_Strict(dt, when_text, start) ==
  IF dt.some
    THEN start < dt.v /\ dt.v < start + WINDOW_MINUTES
  ELSE TRUE

\* lines 133-150, with start the value now_local() returns at line 134
within_window(dt, when_text, start) ==
  IF dt.some
    THEN start <= dt.v /\ dt.v <= start + WINDOW_MINUTES
  ELSE LET t == LowerText(when_text) IN
       IF Contains(<<"starting", "soon">>, t) THEN TRUE
       ELSE LET m == RelSearch(t, FALSE) IN
            IF m.found
              THEN (IF IsHour(m.unit) THEN m.n * 60 ELSE m.n) <= WINDOW_MINUTES
            ELSE TRUE

(* ------------------------- the rendered page -------------------------- *)
\* One <a href*='/events/'> of the page with the card around it: the href,
\* the title (text and its length in characters), the <time> element's
\* text and datetime attribute, and the first span mentioning "attendee".
Anchor(href, title, len, whenText, dtAttr, attendeesText) ==
  [href |-> href, title |-> title, len |-> len, whenText |-> whenText,
   dtAttr |-> dtAttr, attendeesText |-> attendeesText]

\* an ISO timestamp of the instant inst written with zone offset off
Iso(inst, off) ==
  <<Date((inst + off) \div DayLen), Clk((inst + off) % DayLen), Zone(off)>>

\* the same timestamp without a zone, read on the LOCAL_TZ wall clock
IsoNaive(inst) ==
  <<Date((inst + LocalOff) \div DayLen), Clk((inst + LocalOff) % DayLen)>>

WhenTexts ==
  { <<>>,
    <<W("in"), Num(0), W("minutes")>>,
    <<W("in"), Num(90), W("minutes")>>,
    <<W("in"), Num(91), W("Minutes")>>,
    <<W("In"), Num(1), W("Hour")>>,
    <<W("IN"), Num(2), W("HOURS")>>,
    <<W("in"), Num(1000), W("minutes")>>,
    <<W("Starting"), W("Soon")>>,
    <<W("Today"), W("at"), Clk(((Clock0 + LocalOff) % DayLen) + 30)>>,
    <<W("Tomorrow"), Clk((Clock0 + LocalOff) % DayLen)>>,
    <<W("TBD")>>,
    IsoNaive(Clock0 + WINDOW_MINUTES),
    IsoNaive(Clock0 - 1) }

DtAttrs ==
  { <<>>,
    <<W("TBD")>>,
    Iso(Clock0 + 30, 0),
    Iso(Clock0 + WINDOW_MINUTES + 1, LocalOff),
    IsoNaive(Clock0) }

AttendeesTexts ==
  { <<>>,
    <<W("attendees")>>,
    <<Num(47), W("attendees")>>,
    <<Num(1234567), W("attendees")>> }

\* every combination of the time and attendance fields, on one link
AllAnchors ==
  { Anchor("/events/a", "Intro to Rust", 13, w, d, a) :
      w \in WhenTexts, d \in DtAttrs, a \in AttendeesTexts }

\* the cards that multi-card batches are made of
CuratedAnchors ==
  { Anchor("/events/a", "Intro to Rust", 13, <<>>, Iso(Clock0 + 30, 0), <<Num(42), W("attendees")>>),
    Anchor("https://www.meetup.com/events/a", "INTRO TO RUST", 13, <<>>, Iso(Clock0 + 30, 0), <<Num(7), W("attendees")>>),
    Anchor("/events/a", "Hi", 2, <<>>, Iso(Clock0 + 30, 0), <<>>),
    Anchor("/events/b", "R&D night", 9, <<W("in"), Num(0), W("minutes")>>, <<>>, <<>>),
    Anchor("/events/b", "Go meetup", 9, <<W("in"), Num(90), W("minutes")>>, <<>>, <<Num(100), W("attendees")>>),
    Anchor("/events/c", "Go meetup", 9, <<W("IN"), Num(2), W("HOURS")>>, <<>>, <<Num(500), W("attendees")>>),
    Anchor("/events/c", "Book club", 9, <<>>, <<>>, <<W("attendees")>>),
    Anchor("/events/d", "Book club", 9, <<>>, Iso(Clock0 - 1, 0), <<Num(3), W("attendees")>>),
    Anchor("/events/d", "Chess", 5, <<>>, Iso(Clock0 + WINDOW_MINUTES + 1, 0), <<Num(9), W("attendees")>>),
    Anchor("/events/e", "Chess", 5, <<>>, Iso(Clock0, 0), <<Num(9), W("attendees")>>),
    Anchor("/events/e", "Yoga", 4, <<>>, Iso(Clock0 + WINDOW_MINUTES, LocalOff), <<Num(42), W("attendees")>>),
    Anchor("/events/f", "Yoga", 4, <<W("Starting"), W("Soon")>>, <<W("TBD")>>, <<>>) }

AnchorBatches ==
  UNION { [1..n -> CuratedAnchors] : n \in 0..MaxAnchors } \cup { <<a>> : a \in AllAnchors }

\* document.body.innerText.slice(0, 800)
BodySnippets ==
  { <<>>,
    <<W("Online"), W("events")>>,
    <<W("Please"), W("Verify"), W("you"), W("are"), W("human")>>,
    <<W("Traffic"), W("is"), W("Unusual")>>,
    <<W("Unusual"), W("Traffic"), W("detected")>> }

\* new URL(href, location.origin).toString()
absUrl(href) ==
  CASE href = "/events/a" -> "https://www.meetup.com/events/a"
    [] href = "/events/b" -> "https://www.meetup.com/events/b"
    [] href = "/events/c" -> "https://www.meetup.com/events/c"
    [] href = "/events/d" -> "https://www.meetup.com/events/d"
    [] href = "/events/e" -> "https://www.meetup.com/events/e"
    [] href = "/events/f" -> "https://www.meetup.com/events/f"
    [] OTHER -> href

Card(a) ==
  [title |-> a.title, url |-> absUrl(a.href), whenText |-> a.whenText,
   dtAttr |-> a.dtAttr, attendeesText |-> a.attendeesText]

RECURSIVE ExtractFrom(_, _, _, _)
\* the for loop of the in-page script: a link is marked seen before the
\* title of its card is looked at
ExtractFrom(anchors, j, seenUrls, out) ==
  IF j > Len(anchors) THEN out
  ELSE LET a == anchors[j]
           url == absUrl(a.href) IN
       IF url = "" \/ url \in seenUrls
         THEN ExtractFrom(anchors, j + 1, seenUrls, out)
       ELSE IF a.title = "" \/ a.len < 3
         THEN ExtractFrom(anchors, j + 1, seenUrls \cup {url}, out)
       ELSE ExtractFrom(anchors, j + 1, seenUrls \cup {url}, Append(out, Card(a)))

\* the object page.evaluate returns
Extract(d) ==
  LET out == ExtractFrom(d.anchors, 1, {}, <<>>) IN
  [countAnchors |-> Len(d.anchors), extracted |-> Len(out),
   bodySnippet |-> d.body, events |-> out]

(* ------------------------------ build_rss ----------------------------- *)
\* html.escape on one word
EscWord(w) == IF w = "R&D night" THEN "R&amp;D night" ELSE w

\* esc(s) on a text
esc(t) == [j \in 1..Len(t) |-> [t[j] EXCEPT !.k = EscWord(t[j].k)]]

\* one <item>: title, link, guid, pubDate and the description paragraphs
RssItem(it) ==
  [title |-> [j \in 1..Len(it.title) |-> esc(it.title[j])],
   link |-> EscWord(it.url),
   guid |-> EscWord(it.url),
   pubDate |-> it.pubdate,
   description |->
     (IF Len(esc(it.when_text)) # 0
        THEN << [label |-> "Time", text |-> esc(it.when_text)] >> ELSE << >>)
     \o (IF Len(esc(it.attendees_text)) # 0
        THEN << [label |-> "Attendees", text |-> esc(it.attendees_text)] >> ELSE << >>)
     \o << [label |-> "Open event", text |-> << W(EscWord(it.url)) >>] >>]

build_rss(its, utcnow) ==
  [written |-> TRUE, lastBuildDate |-> utcnow,
   items |-> [j \in 1..Len(its) |-> RssItem(its[j])]]

NoFeed == [written |-> FALSE, lastBuildDate |-> 0, items |-> << >>]

(* --------------------------------- main ------------------------------- *)
blocked_signals ==
  { <<"verify">>, <<"captcha">>, <<"robot">>, <<"unusual", "traffic">>,
    <<"enable", "javascript">> }

\* line 344 with `and` in place of `or`
IsBlockedBoth(count_anchors, extracted, body_snip) ==
  /\ count_anchors = 0 /\ extracted = 0
  /\ \E sig \in blocked_signals : Contains(sig, body_snip)

\* line 344; body_snip is already lowered (line 341)
IsBlocked(count_anchors, extracted, body_snip) ==
  \/ count_anchors = 0 /\ extracted = 0
  \/ \E sig \in blocked_signals : Contains(sig, body_snip)

Counts(a, e) == << W("anchors"), Num(a), W("extracted"), Num(e) >>

\* lines 349-356
BlockedItem(a, e, utcnow) ==
  [title |-> << << W("Meetup blocked or page did not render on GitHub runner") >> >>,
   url |-> MEETUP_URL,
   when_text |-> Counts(a, e),
   attendees_text |-> << >>,
   attendees_count |-> 0,
   pubdate |-> utcnow]

\* lines 398-405
KeptZeroItem(a, e, utcnow) ==
  [title |-> << << W("Events were extracted but time filtering kept 0") >> >>,
   url |-> MEETUP_URL,
   when_text |-> Counts(a, e) \o << W("kept"), Num(0) >>,
   attendees_text |-> << >>,
   attendees_count |-> 0,
   pubdate |-> utcnow]

\* lines 371-390: the item of a kept card
EventItem(e, dt, utcnow) ==
  [title |-> << << W(e.title) >> >>
             \o (IF Len(e.whenText) # 0 THEN << e.whenText >> ELSE << >>)
             \o (IF Len(e.attendeesText) # 0 THEN << e.attendeesText >> ELSE << >>),
   url |-> e.url,
   when_text |-> IF Len(e.whenText) # 0 THEN e.whenText
                 ELSE << W("Starting soon (time not provided on card)") >>,
   attendees_text |-> e.attendeesText,
   attendees_count |-> attendees_to_int(e.attendeesText),
   pubdate |-> IF dt.some THEN dt.v ELSE utcnow]

RECURSIVE InsertDesc(_, _)
\* x goes after every item whose count is at least its own
InsertDesc(x, s) ==
  IF s = << >> THEN << x >>
  ELSE IF s[1].attendees_count >= x.attendees_count
    THEN << s[1] >> \o InsertDesc(x, Tail(s))
  ELSE << x >> \o s

RECURSIVE SortFrom(_, _, _)
SortFrom(s, j, acc) ==
  IF j > Len(s) THEN acc ELSE SortFrom(s, j + 1, InsertDesc(s[j], acc))

\* list.sort(key=attendees_count, reverse=True): stable, descending
SortDesc(s) == SortFrom(s, 1, << >>)

\* items[:MAX_ITEMS]
Cap(s) == IF Len(s) <= MAX_ITEMS THEN s ELSE SubSeq(s, 1, MAX_ITEMS)

\* the names main can resolve: module globals and builtins
BoundNames ==
  { "os", "re", "json", "html", "datetime", "timedelta", "timezone", "ZoneInfo",
    "dateparser", "sync_playwright", "PlaywrightTimeoutError",
    "MEETUP_URL", "OUT_DIR", "FEED_PATH", "DEBUG_HTML", "DEBUG_PNG", "DEBUG_JSON",
    "LOCAL_TZ", "WINDOW_MINUTES", "MAX_ITEMS", "FEED_TITLE", "FEED_LINK",
    "FEED_DESCRIPTION", "esc", "now_local", "rfc2822", "attendees_to_int",
    "parse_dt", "within_window", "build_rss", "scrape_rendered_dom", "main",
    "True", "False", "None", "any", "int", "len", "open", "print", "range",
    "str", "Exception" }

VARIABLES
  dom,         \* the rendered page: its event anchors and its body text
  clock,       \* the wall clock, in minutes
  pc,          \* where main is
  raw,         \* what scrape_rendered_dom returned
  is_blocked,  \* line 344
  i,           \* index of the card the for loop of line 358 is at
  start_dt,    \* line 365
  base,        \* the clock value parse_dt ran at for the current card
  items,       \* line 346
  seen,        \* per card gone through the loop: what was resolved and decided
  feed         \* public/feed.xml

vars == << dom, clock, pc, raw, is_blocked, i, start_dt, base, items, seen, feed >>

NoRaw == [countAnchors |-> 0, extracted |-> 0, bodySnippet |-> << >>, events |-> << >>]

Init ==
  /\ dom \in [anchors : AnchorBatches, body : BodySnippets]
  /\ clock = Clock0
  /\ pc = "scrape"
  /\ raw = NoRaw
  /\ is_blocked = FALSE
  /\ i = 1
  /\ start_dt = None
  /\ base = Clock0
  /\ items = << >>
  /\ seen = << >>
  /\ feed = NoFeed

\* time passes while the script runs
Tick ==
  /\ pc \notin {"done", "crashed"}
  /\ clock < Clock0 + MaxTicks
  /\ clock' = clock + 1
  /\ UNCHANGED << dom, pc, raw, is_blocked, i, start_dt, base, items, seen, feed >>

\* line 336
Scrape ==
  /\ pc = "scrape"
  /\ raw' = Extract(dom)
  /\ pc' = "check"
  /\ UNCHANGED << dom, clock, is_blocked, i, start_dt, base, items, seen, feed >>

\* lines 338-348
CheckBlocked ==
  /\ pc = "check"
  /\ is_blocked' = IsBlocked(raw.countAnchors, raw.extracted, LowerText(raw.bodySnippet))
  /\ pc' = IF is_blocked' THEN "blocked" ELSE "loop"
  /\ UNCHANGED << dom, clock, raw, i, start_dt, base, items, seen, feed >>

\* lines 349-356
AppendBlocked ==
  /\ pc = "blocked"
  /\ items' = Append(items, BlockedItem(raw.countAnchors, raw.extracted, clock))
  /\ pc' = "build"
  /\ UNCHANGED << dom, clock, raw, is_blocked, i, start_dt, base, seen, feed >>

\* lines 358-365: the next card's fields are read and its start resolved
ParseDt ==
  /\ pc = "loop"
  /\ i <= Len(raw.events)
  /\ start_dt' = parse_dt(raw.events[i].dtAttr, raw.events[i].whenText, clock)
  /\ base' = clock
  /\ pc' = "filter"
  /\ UNCHANGED << dom, clock, raw, is_blocked, i, items, seen, feed >>

\* lines 368-390: the window decision, and the item of a kept card
Filter ==
  /\ pc = "filter"
  /\ LET e == raw.events[i]
         keep == within_window(start_dt, e.whenText, clock) IN
       /\ seen' = Append(seen, [card |-> e, base |-> base, dt |-> start_dt,
                                start |-> clock, keep |-> keep])
       /\ items' = IF keep THEN Append(items, EventItem(e, start_dt, clock)) ELSE items
  /\ i' = i + 1
  /\ pc' = "loop"
  /\ UNCHANGED << dom, clock, raw, is_blocked, start_dt, base, feed >>

\* lines 393-405: the arguments of items.sort are evaluated first, and a
\* name that is not bound raises NameError out of main
SortCap ==
  /\ pc = "loop"
  /\ i > Len(raw.events)
  /\ IF "TRUE" \in BoundNames
       THEN /\ items' = (LET top == Cap(SortDesc(items)) IN
                         IF top = << >>
                           THEN << KeptZeroItem(raw.countAnchors, raw.extracted, clock) >>
                         ELSE top)
            /\ pc' = "build"
       ELSE /\ items' = items
            /\ pc' = "crashed"
  /\ UNCHANGED << dom, clock, raw, is_blocked, i, start_dt, base, seen, feed >>

\* lines 407-409
WriteFeed ==
  /\ pc = "build"
  /\ feed' = build_rss(items, clock)
  /\ pc' = "done"
  /\ UNCHANGED << dom, clock, raw, is_blocked, i, start_dt, base, items, seen >>

Next ==
  \/ Tick
  \/ Scrape
  \/ CheckBlocked
  \/ AppendBlocked
  \/ ParseDt
  \/ Filter
  \/ SortCap
  \/ WriteFeed

Spec == Init /\ [][Next]_vars

TypeOK ==
  /\ pc \in {"scrape", "check", "blocked", "loop", "filter", "build", "done", "crashed"}
  /\ clock \in Clock0..(Clock0 + MaxTicks)
  /\ i \in 1..(Len(raw.events) + 1)
  /\ Len(seen) <= Len(raw.events)

(* ============================== properties ============================ *)
Terminated == pc \in {"done", "crashed"}

\* the source is judged unavailable: no anchors and no cards, or a block
\* phrase in the body snippet
SourceUnavailable ==
  \/ raw.countAnchors = 0 /\ raw.extracted = 0
  \/ \E sig \in blocked_signals : Contains(sig, LowerText(raw.bodySnippet))

InWindow(t, now) == now <= t /\ t <= now + WINDOW_MINUTES

\* the positions of the feed whose link is url
FeedPos(url) == {p \in 1..Len(feed.items) : feed.items[p].link = url}

ItemPos(url) == {p \in 1..Len(items) : items[p].url = url}

KeptIdx == {j \in 1..Len(seen) : seen[j].keep}

BlockedTitle == << << W("Meetup blocked or page did not render on GitHub runner") >> >>

KeptZeroTitle == << << W("Events were extracted but time filtering kept 0") >> >>

\* C1: whatever the scraper returned, main ends without an exception and
\* has written a feed with at least one item.
C1_MainCompletes ==
  Terminated => (pc = "done" /\ feed.written /\ Len(feed.items) >= 1)

\* C2: a card whose start instant t is resolved is kept by the window
\* filter exactly when now <= t <= now + WINDOW_MINUTES, now being the
\* instant the filter reads.
C2_WindowIff ==
  \A j \in 1..Len(seen) :
    seen[j].dt.some =>
      /\ seen[j].keep <=> InWindow(seen[j].dt.v, seen[j].start)
      /\ (ItemPos(seen[j].card.url) # {}) <=> InWindow(seen[j].dt.v, seen[j].start)

\* a run that kept a card starting exactly now and dropped one starting
\* one minute after the end of the window
C2_Witness ==
  /\ \E j \in 1..Len(seen) :
       seen[j].dt.some /\ seen[j].dt.v = seen[j].start /\ seen[j].keep
  /\ \E j \in 1..Len(seen) :
       /\ seen[j].dt.some /\ ~seen[j].keep
       /\ seen[j].dt.v = seen[j].start + WINDOW_MINUTES + 1

\* C3: in the feed of a non-blocked run, a kept card with more attendees
\* comes before a kept card with fewer.
C3_RankedFeed ==
  (Terminated /\ ~SourceUnavailable) =>
    \A a \in KeptIdx, b \in KeptIdx :
      attendees_to_int(seen[a].card.attendeesText)
        > attendees_to_int(seen[b].card.attendeesText)
      => \E p \in FeedPos(seen[a].card.url), q \in FeedPos(seen[b].card.url) : p < q

\* C4: the feed of a non-blocked run that kept cards holds the first
\* MAX_ITEMS of the kept cards in rank order, and no more.
C4_CappedAfterSort ==
  (Terminated /\ ~SourceUnavailable /\ KeptIdx # {}) =>
    /\ feed.written
    /\ Len(feed.items) <= MAX_ITEMS
    /\ LET kept == SelectSeq(seen, LAMBDA h : h.keep)
           ranked == SortDesc([j \in 1..Len(kept) |->
                       [url |-> kept[j].card.url,
                        attendees_count |-> attendees_to_int(kept[j].card.attendeesText)]])
       IN /\ Len(feed.items) = IF Len(ranked) <= MAX_ITEMS THEN Len(ranked) ELSE MAX_ITEMS
          /\ \A p \in 1..Len(feed.items) : feed.items[p].link = ranked[p].url

\* C5: when the source is judged unavailable the feed is the single
\* "blocked" entry and no card went through the loop.
C5_BlockedOnlyDiagnostic ==
  (pc # "scrape" /\ SourceUnavailable) =>
    /\ seen = << >>
    /\ pc \notin {"loop", "filter", "crashed"}
    /\ pc = "done" =>
         /\ feed.written
         /\ Len(feed.items) = 1
         /\ feed.items[1].title = BlockedTitle
         /\ feed.items[1].link = MEETUP_URL

\* a blocked run has ended although both of its two cards are in the window
C5_Witness ==
  /\ pc = "done" /\ SourceUnavailable
  /\ Len(raw.events) = 2
  /\ \A j \in 1..2 :
       /\ DateParse(raw.events[j].dtAttr).ok
       /\ InWindow(ToLocal(DateParse(raw.events[j].dtAttr)), clock)

\* C6: a non-blocked run that kept no card writes the single "kept=0"
\* entry with the extracted count; one that kept a card writes no
\* diagnostic entry.
C6_KeptZeroDiagnostic ==
  (Terminated /\ ~SourceUnavailable) =>
    /\ feed.written
    /\ KeptIdx = {} =>
         /\ Len(feed.items) = 1
         /\ feed.items[1].title = KeptZeroTitle
         /\ feed.items[1].description[1].text
              = Counts(raw.countAnchors, raw.extracted) \o << W("kept"), Num(0) >>
    /\ KeptIdx # {} =>
         \A p \in 1..Len(feed.items) :
           feed.items[p].title \notin {KeptZeroTitle, BlockedTitle}

\* the anchors of the page carrying the link url
AnchorsOf(url) == {j \in 1..Len(dom.anchors) : absUrl(dom.anchors[j].href) = url}

\* C7: a link that two or more cards of the page share has exactly one
\* item in the feed, built from the first of those cards (stated for a
\* non-blocked run whose first card of the link is valid and in the window).
C7_DedupFirstWins ==
  (Terminated /\ ~SourceUnavailable) =>
    \A j \in KeptIdx :
      LET url == seen[j].card.url IN
      Cardinality(AnchorsOf(url)) >= 2 =>
        /\ Cardinality(FeedPos(url)) = 1
        /\ \A p \in FeedPos(url) :
             feed.items[p].title[1] = esc(<< W(dom.anchors[Min(AnchorsOf(url))].title) >>)

\* minutes of a relative expression
RelMinutes(rel) == IF IsHour(Lower(rel.unit)) THEN rel.n * 60 ELSE rel.n

\* C8: a card resolved to now + N minutes with 0 <= N <= WINDOW_MINUTES is
\* kept however much time passes between resolving and filtering.
C8_RelativeAlwaysKept ==
  \A j \in 1..Len(seen) :
    LET e == seen[j].card
        rel == RelSearch(LowerText(e.whenText), FALSE) IN
    (~DateParse(e.dtAttr).ok /\ rel.found /\ RelMinutes(rel) <= WINDOW_MINUTES)
      => seen[j].keep

\* C9: parse_dt takes the first of: the parsed datetime attribute; absent
\* for an empty text; now + N minutes or hours for a relative text; the
\* parse of the text with today / tomorrow replaced; and absent when that
\* parse fails.
C9_ParsePriority ==
  \A j \in 1..Len(seen) :
    LET e == seen[j].card
        attr == DateParse(e.dtAttr)
        rel == RelSearch(LowerText(e.whenText), FALSE)
        gen == DateParse(SubstDays(e.whenText, seen[j].base)) IN
    /\ attr.ok => seen[j].dt = Some(ToLocal(attr))
    /\ (~attr.ok /\ e.whenText = << >>) => seen[j].dt = None
    /\ (~attr.ok /\ rel.found) => seen[j].dt = Some(seen[j].base + RelMinutes(rel))
    /\ (~attr.ok /\ e.whenText # << >> /\ ~rel.found /\ gen.ok)
         => seen[j].dt = Some(ToLocal(gen))
    /\ (~attr.ok /\ e.whenText # << >> /\ ~rel.found /\ ~gen.ok) => seen[j].dt = None

\* a card with both a parseable datetime attribute and a relative text was
\* resolved to the attribute's instant, which differs from the relative one
C9_Witness ==
  \E j \in 1..Len(seen) :
    LET e == seen[j].card
        rel == RelSearch(LowerText(e.whenText), FALSE) IN
    /\ DateParse(e.dtAttr).ok /\ rel.found
    /\ seen[j].dt.some
    /\ seen[j].dt.v # seen[j].base + RelMinutes(rel)

\* C10: a card whose start instant is absent is kept; the relative
\* exclusion of within_window is not met with an absent instant, and a
\* dropped card has a resolved instant outside the window.
C10_AbsentAlwaysKept ==
  \A j \in 1..Len(seen) :
    /\ ~seen[j].dt.some =>
         /\ seen[j].keep
         /\ ~RelSearch(LowerText(seen[j].card.whenText), FALSE).found
    /\ ~seen[j].keep =>
         /\ seen[j].dt.some
         /\ ~InWindow(seen[j].dt.v, seen[j].start)

\* a card with a text that does not parse was kept with no start instant
C10_Witness ==
  \E j \in 1..Len(seen) :
    /\ ~seen[j].dt.some /\ seen[j].keep
    /\ seen[j].card.whenText # << >>
    /\ ~Contains(<<"starting", "soon">>, LowerText(seen[j].card.whenText))
====
